---- MODULE Spec2Model ----
(***************************************************************************)
(* Model of onedrive_to_aws_sync.py: one run of main() after another       *)
(* against an object store (the S3 bucket), a local scratch directory      *)
(* (/tmp) and the Graph delta feed.  The environment (token endpoint,      *)
(* feed, content endpoint, bucket, file system) answers each call with one *)
(* of the outcomes the call can have.                                      *)
(***************************************************************************)
EXTENDS Integers, Sequences, FiniteSets, TLC

(***************************************************************************)
(* Bounds of the model.                                                    *)
(***************************************************************************)
MaxRuns == 2      \* runs of main() in one behaviour
MaxPages == 2     \* feed pages requested in one run
MaxRecs == 2      \* change entries on one page
MaxFaults == 2    \* failing environment answers in one behaviour

(***************************************************************************)
(* Configuration (os.environ) and the strings of the Graph API.            *)
(***************************************************************************)
PathPrefixLen == 80

target_folder == "Invoices"
target_driveID == "b!AAAAAAAAAAAAAAAAAAAAAAAAAAAAAAAAAAAAAAAAAAAAAAAAAAAAAAAAAAAAAAAA"
other_driveID == "b!BBBBBBBBBBBBBBBBBBBBBBBBBBBBBBBBBBBBBBBBBBBBBBBBBBBBBBBBBBBBBBBB"

RootUrl == "https://graph.microsoft.com/v1.0/drives/driveId_prod/root/delta"
NextLink == "nextLink"
\* the terminal marker the feed issues in run r; "deltaLink0" is an earlier one
DeltaLink(r) == "deltaLink" \o ToString(r)

Absent == "<absent>"
CursorKey == "deltaLink.json"
CursorTmp == "/tmp/deltaLink.json"
ErrorBody == "<error response body>"

DrivePath(drive, rest) == "/drives/" \o drive \o "/root:" \o rest

(***************************************************************************)
(* Change entries of the feed.  path = Absent stands for a parentReference *)
(* without a 'path' key; isFile for the presence of the 'file' facet.      *)
(***************************************************************************)
Rec(i, n, p, f) == [id |-> i, name |-> n, path |-> p, isFile |-> f]

RecordPool ==
    { Rec("A", "a.pdf", DrivePath(target_driveID, "/Invoices"), TRUE),
      Rec("A", "a2.pdf", DrivePath(target_driveID, "/Invoices/2024"), TRUE),
      Rec("B", "a.pdf", DrivePath(target_driveID, "/Invoices/2024"), TRUE),
      Rec("B", "b.pdf", DrivePath(other_driveID, "/Shared"), TRUE),
      Rec("B", target_folder, DrivePath(other_driveID, "/Shared"), FALSE),
      Rec("B", target_folder, Absent, FALSE) }

Ids == {r.id : r \in RecordPool}

NoRec == Rec(Absent, Absent, Absent, FALSE)

\* a page of the feed: the number of its entries and exactly one of the two
\* markers; the entries themselves are drawn as the loop of line 107 reaches them
Page(n, nl, dl) == [len |-> n, nextLink |-> nl, deltaLink |-> dl]
NoPage == Page(0, Absent, Absent)
NextPages == {Page(n, NextLink, Absent) : n \in 0..MaxRecs}
LastPages(r) == {Page(n, Absent, DeltaLink(r)) : n \in 0..MaxRecs}

(***************************************************************************)
(* delta_gather's filter and upsert (lines 107-114).                       *)
(***************************************************************************)
\* Python's `needle in haystack` on strings
Contains(haystack, needle) ==
    \E k \in 0..(Len(haystack) - Len(needle)) :
        SubSeq(haystack, k + 1, k + Len(needle)) = needle

\* the filter with `and` for `or`
RelevantBoth(r) ==
    /\ r.path # Absent
    /\ r.name = target_folder
    /\ Contains(r.path, target_driveID)

\* the two nested ifs of lines 109-110
Relevant(i) ==
    /\ i.path # Absent
    /\ (i.name = target_folder \/ Contains(i.path, target_driveID))

\* path[80:]
PathRelative(path) == SubSeq(path, PathPrefixLen + 1, Len(path))

\* i['parentReference'].update({'path_relative': ...})
WithPathRelative(i) ==
    [id |-> i.id, name |-> i.name, path |-> i.path, isFile |-> i.isFile,
     path_relative |-> PathRelative(i.path)]

\* dict.setdefault(key, value): an existing key keeps its old value
DictSetDefault(d, e) ==
    IF \E k \in 1..Len(d) : d[k].id = e.id THEN d ELSE Append(d, e)

\* dict.update({key: value}) on a dict kept in insertion order: an existing
\* key keeps its position and takes the new value, a new key is appended
DictUpdate(d, e) ==
    IF \E k \in 1..Len(d) : d[k].id = e.id
    THEN [k \in 1..Len(d) |-> IF d[k].id = e.id THEN e ELSE d[k]]
    ELSE Append(d, e)

\* the body of the loop, lines 108-114
Accumulate(d, i) ==
    IF Relevant(i) THEN DictUpdate(d, WithPathRelative(i)) ELSE d

(***************************************************************************)
(* The object store and the scratch directory: functions from the names    *)
(* that exist to their contents.                                            *)
(***************************************************************************)
\* the write replaces the store by the one object
PutAlone(store, key, content) == [k \in {key} |-> content]

Put(store, key, content) ==
    [k \in DOMAIN store \cup {key} |-> IF k = key THEN content ELSE store[k]]
Remove(store, key) == [k \in DOMAIN store \ {key} |-> store[k]]
Exists(store, key) == key \in DOMAIN store
Empty == [k \in {} |-> Absent]

VARIABLES
    bucket,        \* the S3 bucket: key -> object
    tmp,           \* /tmp: path -> file content
    run,           \* number of the current run of main()
    pc,            \* position of the run
    abortAt,       \* where an uncaught exception ended the run ("" if none)
    headers,       \* token in main's headers
    tokens,        \* tokens acquired by token_gains() in this run
    delta_url,     \* main's url: the one of the run's first feed request
    url,           \* delta_gather's url: the one of the next feed request
    delta_resp,    \* the page delta_gather has just parsed
    pos,           \* entries of the page the loop of line 107 has taken
    i,             \* the loop's entry
    change_array,  \* the dict of relevant entries, in insertion order
    pages,         \* feed pages requested in this run
    startCursor,   \* cursor in the bucket when this run started
    loaded,        \* the cursor download of this run succeeded
    terminal,      \* terminal marker read in this run, and whether its page had entries
    saved,         \* outcome of this run's cursor upload: "no", "failed", "ok"
    prev,          \* what the previous run left: see PrevOf
    idx,           \* position of main's loop over change_array
    onedrive_resp, \* the response onedrive_download holds
    calls,         \* ids onedrive_download was called for in this run
    seen,          \* ids of the feed entries the loop of line 107 took in this run
    allOk,         \* every content fetch of this run returned the item's content
                   \* and every item upload returned True
    faults         \* failing environment answers so far

vars == <<bucket, tmp, run, pc, abortAt, headers, tokens, delta_url, url, delta_resp,
          pos, i, change_array, pages, startCursor, loaded,
          terminal, saved, prev, idx, onedrive_resp, calls, seen, allOk, faults>>

feedVars == <<delta_url, url, delta_resp, pos, i, change_array, pages, terminal, seen>>

xferVars == <<idx, onedrive_resp, calls, allOk>>

CursorFile(link) == [deltaLink |-> link]
Cursor(b) == IF Exists(b, CursorKey) THEN b[CursorKey].deltaLink ELSE Absent
NoTerminal == [link |-> Absent, entries |-> FALSE]
NoResp == [body |-> Absent]
NoPrev == [feedFailed |-> FALSE, cursor |-> Absent, failedLink |-> Absent,
           savedLink |-> Absent, failedIds |-> {}, clean |-> FALSE,
           pass |-> <<>>, sink |-> Empty]

\* the environment may answer with a failure while the budget lasts
CanFail == faults < MaxFaults
Fault == faults' = faults + 1
NoFault == UNCHANGED faults

(***************************************************************************)
(* Init: the state before the first modelled run.  An earlier run may have *)
(* left a cursor in the bucket.                                            *)
(***************************************************************************)
Init ==
    /\ bucket \in {Empty, Put(Empty, CursorKey, CursorFile(DeltaLink(0)))}
    /\ tmp = Empty
    /\ run = 1
    /\ pc = "start"
    /\ abortAt = ""
    /\ headers = 0
    /\ tokens = 0
    /\ delta_url = Absent
    /\ url = Absent
    /\ delta_resp = NoPage
    /\ pos = 0
    /\ i = NoRec
    /\ change_array = <<>>
    /\ pages = 0
    /\ startCursor = Cursor(bucket)
    /\ loaded = FALSE
    /\ terminal = NoTerminal
    /\ saved = "no"
    /\ prev = NoPrev
    /\ idx = 1
    /\ onedrive_resp = NoResp
    /\ calls = <<>>
    /\ seen = {}
    /\ allOk = TRUE
    /\ faults = 0

Abort(where) == pc' = "aborted" /\ abortAt' = where

(***************************************************************************)
(* main, lines 158-170: token_gains().  When it raises, the handler prints *)
(* and line 169 reads the unbound aadToken: UnboundLocalError ends main.   *)
(***************************************************************************)
\* an aadToken bound before the try: main goes on without a token
TokenFailureGoesOn == "load"

TokenFailurePc == "aborted"

AcquireToken ==
    /\ pc = "start"
    /\ \/ /\ tokens' = tokens + 1
          /\ headers' = tokens + 1
          /\ pc' = "load"
          /\ abortAt' = abortAt
          /\ NoFault
       \/ /\ CanFail /\ Fault
          /\ pc' = TokenFailurePc
          /\ abortAt' = "token"
          /\ UNCHANGED <<tokens, headers>>
    /\ UNCHANGED <<bucket, tmp, run, feedVars, startCursor, loaded, saved, prev, xferVars>>

(***************************************************************************)
(* main, lines 183-198: the cursor download.  The download of a missing    *)
(* key fails; a failed download or a failed read leaves the root url.      *)
(***************************************************************************)
\* the downloaded link is dropped
CursorUrlDropped(file) == RootUrl

\* line 192
CursorUrl(file) == file.deltaLink

\* the scratch copy is read although the download failed
StaleScratchUrl(scratch) ==
    IF Exists(scratch, CursorTmp) THEN scratch[CursorTmp].deltaLink ELSE RootUrl

\* lines 187-198: nothing under `if s3_ops(...)` runs, delta_url stays line 183's
FailedDownloadUrl(scratch) == RootUrl

LoadCursor ==
    /\ pc = "load"
    /\ pc' = "feed"
    /\ \/ \* s3_ops returns True: read the file, take its link, remove it
          /\ Exists(bucket, CursorKey)
          /\ delta_url' = CursorUrl(bucket[CursorKey])
          /\ loaded' = TRUE
          /\ \/ tmp' = Remove(tmp, CursorTmp) /\ NoFault
             \/ CanFail /\ Fault /\ tmp' = Put(tmp, CursorTmp, bucket[CursorKey])
       \/ \* s3_ops returns False
          /\ IF Exists(bucket, CursorKey) THEN CanFail /\ Fault ELSE NoFault
          /\ delta_url' = FailedDownloadUrl(tmp)
          /\ loaded' = FALSE
          /\ tmp' = tmp
    /\ url' = delta_url'     \* line 202: delta_gather(delta_url, ...)
    /\ UNCHANGED <<bucket, run, abortAt, headers, tokens, delta_resp, pos, i, change_array,
                   pages, startCursor, terminal, saved, prev, xferVars, seen>>

(***************************************************************************)
(* delta_gather, lines 93-134.  One call handles one page; the recursive   *)
(* call of line 118 is the next GetPage with the nextLink as url.  The     *)
(* callers' frames find no deltaLink in their own page when it returns.    *)
(***************************************************************************)
\* line 106: the whole rest of the body is under len(delta_resp['value']) > 0
AfterParse(page) == IF page.len > 0 THEN "filter" ELSE "loop"

\* the deltaLink branch is missing: no save
AfterLoopNoSave(page) ==
    IF page.nextLink # Absent THEN "feed" ELSE "loop"

\* lines 117 and 120, after the loop
AfterLoop(page) ==
    IF page.nextLink # Absent THEN "feed"
    ELSE IF page.deltaLink # Absent THEN "save" ELSE "loop"

PagesNow == IF pages + 1 < MaxPages THEN NextPages \cup LastPages(run) ELSE LastPages(run)

\* an exception at line 95 or 100 that nothing catches ends main
FeedFailureGoesOn == "loop"

FeedFailurePc == "aborted"

\* delta_gather returns to main: its url, page and loop entry are gone
Return == delta_resp' = NoPage /\ url' = Absent /\ pages' = 0 /\ pos' = 0 /\ i' = NoRec

\* the page is parsed (lines 95, 100) and line 106 is decided
ParsePage(page) ==
    /\ pc' = AfterParse(page)
    /\ IF AfterParse(page) = "loop"
       THEN Return
       ELSE /\ delta_resp' = page
            /\ pages' = pages + 1
            /\ pos' = 0
            /\ UNCHANGED <<url, i>>
    /\ terminal' = IF page.deltaLink # Absent
                   THEN [link |-> page.deltaLink, entries |-> page.len > 0]
                   ELSE terminal
    /\ UNCHANGED <<abortAt, change_array>>

\* line 95: the first request for the page
GetPage ==
    /\ pc = "feed"
    /\ pages < MaxPages
    /\ \/ \E page \in PagesNow : ParsePage(page) /\ NoFault
       \/ \* requests.exceptions.HTTPError: line 96
          /\ CanFail /\ Fault
          /\ pc' = "retry"
          /\ UNCHANGED <<abortAt, url, delta_resp, pos, i, change_array, pages,
                         terminal>>
       \/ \* another exception, or a body without 'value' (KeyError, line 106)
          /\ CanFail /\ Fault
          /\ pc' = FeedFailurePc /\ abortAt' = "feed"
          /\ UNCHANGED <<url, delta_resp, pos, i, change_array, pages, terminal>>
    /\ UNCHANGED <<bucket, tmp, run, headers, tokens, delta_url, startCursor, loaded,
                   saved, prev, xferVars, seen>>

\* line 100: the same request again, with the same headers
RetryPage ==
    /\ pc = "retry"
    /\ \/ \E page \in PagesNow : ParsePage(page) /\ NoFault
       \/ /\ CanFail /\ Fault
          /\ pc' = FeedFailurePc /\ abortAt' = "feed"
          /\ UNCHANGED <<url, delta_resp, pos, i, change_array, pages, terminal>>
    /\ UNCHANGED <<bucket, tmp, run, headers, tokens, delta_url, startCursor,
                   loaded, saved, prev, xferVars, seen>>

\* lines 107-120: one turn of the loop; after the last entry, the markers
FilterEntry ==
    /\ pc = "filter"
    /\ \E entry \in RecordPool :
          /\ i' = entry
          /\ seen' = seen \cup {entry.id}
          /\ change_array' = Accumulate(change_array, entry)
    /\ pos' = pos + 1
    /\ IF pos + 1 < delta_resp.len
       THEN UNCHANGED <<pc, url>>
       ELSE /\ pc' = AfterLoop(delta_resp)
            /\ url' = IF AfterLoop(delta_resp) = "feed" THEN delta_resp.nextLink ELSE url
    /\ UNCHANGED <<bucket, tmp, run, abortAt, headers, tokens, delta_url, delta_resp, pages,
                   startCursor, loaded, terminal, saved, prev, xferVars,
                   faults>>

(***************************************************************************)
(* delta_gather, lines 120-133: the cursor save.                           *)
(***************************************************************************)
SaveCursor ==
    /\ pc = "save"
    /\ \/ \* line 125: open() raises, nothing catches it
          /\ CanFail /\ Fault
          /\ Abort("save")
          /\ UNCHANGED <<bucket, tmp, saved, url, delta_resp, pos, i, pages>>
       \/ \* the upload succeeds, the scratch copy is removed
          /\ bucket' = Put(bucket, CursorKey, CursorFile(delta_resp.deltaLink))
          /\ saved' = "ok"
          /\ pc' = "loop" /\ abortAt' = abortAt /\ Return
          /\ \/ tmp' = Remove(tmp, CursorTmp) /\ NoFault
             \/ /\ CanFail /\ Fault
                /\ tmp' = Put(tmp, CursorTmp, CursorFile(delta_resp.deltaLink))
       \/ \* the upload fails: s3_ops returns False, the scratch copy stays
          /\ CanFail /\ Fault
          /\ saved' = "failed"
          /\ pc' = "loop" /\ abortAt' = abortAt /\ Return
          /\ tmp' = Put(tmp, CursorTmp, CursorFile(delta_resp.deltaLink))
          /\ bucket' = bucket
    /\ UNCHANGED <<run, headers, tokens, delta_url, change_array, terminal, startCursor,
                   loaded, prev, xferVars, seen>>

(***************************************************************************)
(* main, lines 204-210: the loop over the dict, in insertion order, and    *)
(* the completion marker.                                                  *)
(***************************************************************************)
\* line 207: 'file' in value
CallsDownload(value) == value.isFile

ForEach ==
    /\ pc = "loop"
    /\ IF idx > Len(change_array)
       THEN /\ pc' = "done"
            /\ UNCHANGED <<idx, calls>>
       ELSE IF CallsDownload(change_array[idx])
            THEN /\ pc' = "get"
                 /\ calls' = Append(calls, change_array[idx].id)
                 /\ idx' = idx
            ELSE /\ pc' = "loop"
                 /\ idx' = idx + 1
                 /\ calls' = calls
    /\ UNCHANGED <<bucket, tmp, run, abortAt, headers, tokens, delta_url, url, delta_resp,
                   pos, i, change_array, pages, startCursor, loaded, terminal,
                   saved, prev, onedrive_resp, seen, allOk, faults>>

(***************************************************************************)
(* onedrive_download, lines 40-90, for file_metadata = change_array[idx].  *)
(***************************************************************************)
file_metadata == change_array[idx]
local_path == "/tmp/" \o file_metadata.name
filename_s3 == file_metadata.path_relative \o "/" \o file_metadata.name

ContentOf(id) == [body |-> "content of " \o id]
ErrorResp == [body |-> ErrorBody]

xferFrame == <<run, headers, delta_url, url, delta_resp, pos, i, change_array, pages,
               startCursor, loaded, terminal, saved, prev, calls, seen>>

\* line 45: requests.get returns any response, whatever its status, or raises
FetchContent ==
    /\ pc = "get"
    /\ \/ /\ onedrive_resp' = ContentOf(file_metadata.id)
          /\ pc' = "stage" /\ NoFault
          /\ allOk' = allOk
       \/ /\ CanFail /\ Fault
          /\ onedrive_resp' = ErrorResp
          /\ pc' = "stage"
          /\ allOk' = FALSE
       \/ /\ CanFail /\ Fault
          /\ onedrive_resp' = onedrive_resp
          /\ pc' = "reget"
          /\ allOk' = allOk
    /\ UNCHANGED <<bucket, tmp, abortAt, tokens, idx, xferFrame>>

\* lines 46-58: token_gains() and the second requests.get, neither in a try
RefetchContent ==
    /\ pc = "reget"
    /\ \/ \* token_gains() raises
          /\ CanFail /\ Fault
          /\ Abort("transfer")
          /\ UNCHANGED <<tokens, onedrive_resp, allOk>>
       \/ /\ tokens' = tokens + 1
          /\ \/ /\ onedrive_resp' = ContentOf(file_metadata.id)
                /\ pc' = "stage" /\ abortAt' = abortAt /\ NoFault
                /\ allOk' = allOk
             \/ /\ CanFail /\ Fault
                /\ onedrive_resp' = ErrorResp
                /\ pc' = "stage" /\ abortAt' = abortAt
                /\ allOk' = FALSE
             \/ /\ CanFail /\ Fault
                /\ Abort("transfer")
                /\ UNCHANGED <<onedrive_resp, allOk>>
    /\ UNCHANGED <<bucket, tmp, idx, xferFrame>>

\* lines 65-75: the two local writes, in one try
Stage ==
    /\ pc = "stage"
    /\ pc' = "upload"
    /\ \/ /\ tmp' = Put(Put(tmp, local_path, onedrive_resp),
                        local_path \o ".json", file_metadata)
          /\ NoFault
       \/ \* the first open() raises: neither file is written
          /\ CanFail /\ Fault
          /\ tmp' = tmp
       \/ \* the second open() raises: the content is written, the metadata not
          /\ CanFail /\ Fault
          /\ tmp' = Put(tmp, local_path, onedrive_resp)
    /\ UNCHANGED <<bucket, abortAt, tokens, idx, onedrive_resp, allOk, xferFrame>>

\* the object the failed upload was for is rolled back together with the cursor
RolledBack(b) ==
    IF startCursor = Absent THEN Remove(b, CursorKey)
    ELSE Put(b, CursorKey, CursorFile(startCursor))

\* lines 29-33: the handler prints and returns False, the bucket is as it was
AfterFailedUpload(b) == b

\* s3_ops(local, key, "upload"), lines 24-36: ok is its return value, True with
\* the object written, or False (upload_file raises when the local file is
\* missing)
S3Upload(local, key, ok) ==
    \/ /\ ok
       /\ Exists(tmp, local)
       /\ bucket' = Put(bucket, key, tmp[local])
       /\ NoFault
    \/ /\ ~ok
       /\ Exists(tmp, local)
       /\ CanFail /\ Fault
       /\ bucket' = AfterFailedUpload(bucket)
    \/ /\ ~ok
       /\ ~Exists(tmp, local)
       /\ bucket' = AfterFailedUpload(bucket)
       /\ NoFault

\* the metadata upload is skipped when the content upload failed
ChainedUpload(ok) == IF ok THEN "upload_json" ELSE "cleanup"

\* lines 81-82: the return value of line 81 is not used
AfterContentUpload(ok) == "upload_json"

\* line 81
UploadContent ==
    /\ pc = "upload"
    /\ \E ok \in BOOLEAN :
          /\ S3Upload(local_path, filename_s3, ok)
          /\ pc' = AfterContentUpload(ok)
          /\ allOk' = (allOk /\ ok)
    /\ UNCHANGED <<tmp, abortAt, tokens, idx, onedrive_resp, xferFrame>>

\* line 82
UploadMetadata ==
    /\ pc = "upload_json"
    /\ pc' = "cleanup"
    /\ \E ok \in BOOLEAN :
          /\ S3Upload(local_path \o ".json", filename_s3 \o ".json", ok)
          /\ allOk' = (allOk /\ ok)
    /\ UNCHANGED <<tmp, abortAt, tokens, idx, onedrive_resp, xferFrame>>

\* onedrive_download returns: main's loop takes the next entry
NextItem == pc' = "loop" /\ idx' = idx + 1 /\ onedrive_resp' = NoResp

\* line 86: os.remove(local_path); when it raises (the file is missing, or the
\* removal fails) the handler of line 88 is next and line 87 is skipped
Cleanup ==
    /\ pc = "cleanup"
    /\ \/ /\ Exists(tmp, local_path)
          /\ tmp' = Remove(tmp, local_path)
          /\ pc' = "cleanup_json"
          /\ UNCHANGED <<idx, onedrive_resp>>
          /\ NoFault
       \/ /\ Exists(tmp, local_path)
          /\ CanFail /\ Fault
          /\ tmp' = tmp
          /\ NextItem
       \/ /\ ~Exists(tmp, local_path)
          /\ tmp' = tmp
          /\ NextItem
          /\ NoFault
    /\ UNCHANGED <<bucket, abortAt, tokens, allOk, xferFrame>>

\* line 87: os.remove(local_path+'.json')
CleanupMetadata ==
    /\ pc = "cleanup_json"
    /\ NextItem
    /\ \/ /\ Exists(tmp, local_path \o ".json")
          /\ tmp' = Remove(tmp, local_path \o ".json")
          /\ NoFault
       \/ /\ Exists(tmp, local_path \o ".json")
          /\ CanFail /\ Fault
          /\ tmp' = tmp
       \/ /\ ~Exists(tmp, local_path \o ".json")
          /\ tmp' = tmp
          /\ NoFault
    /\ UNCHANGED <<bucket, abortAt, tokens, allOk, xferFrame>>

(***************************************************************************)
(* The next invocation of the script: the bucket and /tmp stay, everything *)
(* else is the new process's.                                              *)
(***************************************************************************)
\* the item objects of the bucket: all but the cursor
Items(b) == [k \in DOMAIN b \ {CursorKey} |-> b[k]]

\* the entry of the dict under an id
EntryOf(id) == CHOOSE e \in {change_array[k] : k \in 1..Len(change_array)} : e.id = id

\* the ids onedrive_download was called for whose content key is not in the
\* bucket when the run ends
FailedIds ==
    {id \in {calls[k] : k \in 1..Len(calls)} :
        ~Exists(bucket, EntryOf(id).path_relative \o "/" \o EntryOf(id).name)}

\* what a run leaves for the properties of the next one: whether its traversal
\* failed, the cursor it started with, the link whose upload failed, the link
\* it saved and, when it saved one, the ids whose transfer failed; and, when
\* it completed with every fetch and every upload successful, its dict and
\* the item objects of the bucket
PrevOf ==
    [feedFailed |-> abortAt = "feed",
     cursor |-> startCursor,
     failedLink |-> IF saved = "failed" THEN terminal.link ELSE Absent,
     savedLink |-> IF saved = "ok" THEN terminal.link ELSE Absent,
     failedIds |-> IF saved = "ok" THEN FailedIds ELSE {},
     clean |-> (pc = "done" /\ allOk),
     pass |-> IF pc = "done" /\ allOk THEN change_array ELSE <<>>,
     sink |-> IF pc = "done" /\ allOk THEN Items(bucket) ELSE Empty]

\* the dict of the previous run is carried over
KeptDict == change_array

\* line 201: change_array = {}
EmptyDict == <<>>

NextRun ==
    /\ pc \in {"done", "aborted"}
    /\ run < MaxRuns
    /\ run' = run + 1
    /\ pc' = "start"
    /\ abortAt' = ""
    /\ headers' = 0
    /\ tokens' = 0
    /\ delta_url' = Absent
    /\ url' = Absent
    /\ delta_resp' = NoPage
    /\ pos' = 0
    /\ i' = NoRec
    /\ change_array' = EmptyDict
    /\ pages' = 0
    /\ startCursor' = Cursor(bucket)
    /\ loaded' = FALSE
    /\ terminal' = NoTerminal
    /\ saved' = "no"
    /\ prev' = PrevOf
    /\ idx' = 1
    /\ onedrive_resp' = NoResp
    /\ calls' = <<>>
    /\ seen' = {}
    /\ allOk' = TRUE
    /\ UNCHANGED <<bucket, tmp, faults>>

\* one run of main()
RunNext ==
    \/ AcquireToken
    \/ LoadCursor
    \/ GetPage
    \/ RetryPage
    \/ FilterEntry
    \/ SaveCursor
    \/ ForEach
    \/ FetchContent
    \/ RefetchContent
    \/ Stage
    \/ UploadContent
    \/ UploadMetadata
    \/ Cleanup
    \/ CleanupMetadata

RunSpec == Init /\ [][RunNext]_vars

\* run after run
Next ==
    \/ RunNext
    \/ NextRun

Spec == Init /\ [][Next]_vars

TypeOK ==
    /\ run \in 1..MaxRuns
    /\ pc \in {"start", "load", "feed", "retry", "filter", "save", "loop", "get", "reget",
               "stage", "upload", "upload_json", "cleanup", "cleanup_json", "done",
               "aborted"}
    /\ faults \in 0..MaxFaults
    /\ Len(DrivePath(target_driveID, "")) = PathPrefixLen
    /\ Len(DrivePath(other_driveID, "")) = PathPrefixLen
    /\ pages \in 0..MaxPages

(***************************************************************************)
(* Properties.                                                             *)
(***************************************************************************)
TransferPcs == {"loop", "get", "reget", "stage", "upload", "upload_json", "cleanup",
                "cleanup_json", "done"}

\* delta_gather has returned to main
Returned == pc \in TransferPcs \/ (pc = "aborted" /\ abortAt = "transfer")

\* the entries of the dict under one id
Entry(d, id) == SelectSeq(d, LAMBDA e : e.id = id)

\* the feed record an entry of the dict was made from
Raw(e) == Rec(e.id, e.name, e.path, e.isFile)

\* the record is in the dict, as the filter loop stores it
InChangeSet(d, r) == \E k \in 1..Len(d) : d[k] = WithPathRelative(r)

\* the relevance filter as the specification states it
PassesFilter(r) ==
    /\ r.path # Absent
    /\ \/ r.name = target_folder
       \/ Contains(r.path, target_driveID)

\* the run's first feed request is being issued (line 95 or line 100), to url
FirstRequest == pc \in {"feed", "retry"} /\ pages = 0

\* C1, as stated: a run whose traversal fails writes no cursor, and the next
\* run's first feed request uses the cursor persisted before the failed run
\* (the root url if there was none).
C1_Original ==
    /\ abortAt = "feed" => (saved = "no" /\ Cursor(bucket) = startCursor)
    /\ (prev.feedFailed /\ FirstRequest) =>
           url = IF prev.cursor = Absent THEN RootUrl ELSE prev.cursor

\* C1, amended: a run whose traversal fails writes no cursor, and the next
\* run's first feed request uses the cursor persisted before the failed run
\* when that run's cursor download succeeds, and the root url when there is
\* no persisted cursor or the download fails.
C1_CursorSafety ==
    /\ abortAt = "feed" => (saved = "no" /\ Cursor(bucket) = startCursor)
    /\ (prev.feedFailed /\ FirstRequest) =>
           /\ loaded => prev.cursor # Absent
           /\ url = IF loaded THEN prev.cursor ELSE RootUrl

\* C1 witness: the run after a failed traversal has issued its first feed
\* request from the cursor that was persisted before the failed run.
C1_Witness ==
    /\ prev.feedFailed
    /\ prev.cursor # Absent
    /\ FirstRequest
    /\ url = prev.cursor
    /\ Cursor(bucket) = prev.cursor

\* C2: traversal ends without a failure only at a page that carries the
\* terminal marker: once delta_gather has returned, a terminal marker was read.
C2_AllPagesVisited == Returned => terminal.link # Absent

\* C3: when a page with the terminal marker was read, whatever its number of
\* entries, the run has attempted the cursor upload by the time delta_gather
\* returns, and a successful upload leaves that marker as the persisted cursor.
C3_TerminalPersisted ==
    (Returned /\ terminal.link # Absent) =>
        /\ saved # "no"
        /\ saved = "ok" => Cursor(bucket) = terminal.link

C5_Original == (calls # <<>> /\ terminal.entries) => saved = "ok"

\* C5, amended: the cursor save precedes the transfer phase.  No item is
\* fetched before delta_gather has returned, and when the traversal read a
\* terminal page with at least one entry the cursor upload has been attempted,
\* successfully or not, before the first fetch.
C5_SaveBeforeTransfer ==
    calls # <<>> =>
        /\ Returned
        /\ terminal.entries => saved \in {"ok", "failed"}

\* C5 witness: an item is being transferred in a run whose cursor upload failed.
C5_Witness == pc = "upload" /\ saved = "failed" /\ terminal.entries

\* C6: no failure of a step of an item's transfer ends the run.
C6_FailureIsolation == ~(pc = "aborted" /\ abortAt = "transfer")

\* C7: a page request is re-issued only together with the acquisition of a
\* fresh token.
C7_RetryWithFreshToken == [][pc = "retry" => tokens' = tokens + 1]_vars

\* C8: a run whose initial token acquisition failed has stopped there: no
\* cursor download, no feed request, no cursor save, no item transfer, no
\* completion marker.
C8_TokenFailureAborts ==
    (pc # "start" /\ tokens = 0) =>
        /\ pc = "aborted" /\ abortAt = "token"
        /\ ~loaded
        /\ delta_url = Absent /\ url = Absent /\ pages = 0 /\ terminal = NoTerminal
        /\ saved = "no" /\ Cursor(bucket) = startCursor
        /\ change_array = <<>> /\ calls = <<>>

\* C8 witness: a run aborted at the token acquisition.
C8_Witness == pc = "aborted" /\ abortAt = "token" /\ tokens = 0

\* C9: the record the loop has just taken is in the dict if and only if it
\* carries a parent path and its name is the target folder's or its path
\* contains the target drive id.
C9_RelevanceFilter ==
    i # NoRec => (InChangeSet(change_array, i) <=> PassesFilter(i))

\* C9 witness: a record entered the dict on its name alone.
C9_Witness ==
    /\ i # NoRec
    /\ i.name = target_folder
    /\ i.path # Absent
    /\ ~Contains(i.path, target_driveID)
    /\ InChangeSet(change_array, i)

\* the ids of the file entries of the dict, in its order
RECURSIVE FileIds(_)
FileIds(d) ==
    IF d = <<>> THEN <<>>
    ELSE (IF Head(d).isFile THEN <<Head(d).id>> ELSE <<>>) \o FileIds(Tail(d))

\* C10: a run that reached the transfer phase and has ended has called the
\* pipeline exactly once for every file entry of the dict and for no folder.
C10_OncePerFile ==
    (Returned /\ pc \in {"done", "aborted"}) => calls = FileIds(change_array)

\* the ids onedrive_download was called for in this run
CallIds == {calls[k] : k \in 1..Len(calls)}

\* C11, as stated: a failed cursor upload leaves the persisted cursor as it
\* was when the run started, and the next run's first feed request goes to
\* that previous cursor (to the root url when there is none).
C11_Original ==
    /\ saved = "failed" => Cursor(bucket) = startCursor
    /\ (prev.failedLink # Absent /\ FirstRequest) =>
           url = IF prev.cursor = Absent THEN RootUrl ELSE prev.cursor

\* C11, amended: a failed cursor upload leaves the persisted cursor as it was
\* when the run started, to the end of that run; the next run's first feed
\* request goes to that previous cursor when its download succeeds, and to the
\* root url when there is no previous cursor or its download fails; it never
\* goes to the link whose upload failed.
C11_SaveFailureKeepsCursor ==
    /\ saved = "failed" => Cursor(bucket) = startCursor
    /\ (prev.failedLink # Absent /\ FirstRequest) =>
           /\ Cursor(bucket) = prev.cursor
           /\ loaded => prev.cursor # Absent
           /\ url = IF loaded THEN prev.cursor ELSE RootUrl
           /\ url # prev.failedLink

\* C11 witness: the run after a failed cursor upload has downloaded the cursor
\* that was persisted before and issued its first feed request from it.
C11_Witness ==
    /\ prev.failedLink # Absent
    /\ prev.cursor # Absent
    /\ FirstRequest
    /\ loaded
    /\ url = prev.cursor

\* C12: the run's first feed request goes to the root url when no cursor
\* object exists or its download fails, and to exactly the persisted cursor
\* when the object exists and is downloaded.
C12_CursorLoad ==
    /\ loaded => startCursor # Absent
    /\ FirstRequest =>
           /\ delta_url = url
           /\ url = IF loaded THEN startCursor ELSE RootUrl

\* C12 witness: a cursor is persisted, its download failed, and the first feed
\* request goes to the root url.
C12_Witness ==
    /\ FirstRequest
    /\ startCursor # Absent
    /\ ~loaded
    /\ url = RootUrl

\* C13: a run that processes the same dict as the run before it, both with
\* every fetch returning the item's content and every upload successful,
\* ends with the same item keys and the same content per key as the run
\* before it ended with.
C13_Idempotent ==
    (pc = "done" /\ allOk /\ prev.clean /\ change_array = prev.pass) =>
        Items(bucket) = prev.sink

\* C14: no step removes a key from the bucket, and a step changes the object
\* of a key only when it is the upload to that very key: the content or the
\* metadata upload of the item in transfer under its current relative path,
\* or the cursor save.  The object under an item's earlier path stays as it is.
C14_NoDeletion ==
    [][\A k \in DOMAIN bucket :
          /\ k \in DOMAIN bucket'
          /\ bucket'[k] # bucket[k] =>
                \/ pc = "upload" /\ k = filename_s3
                \/ pc = "upload_json" /\ k = filename_s3 \o ".json"
                \/ pc = "save" /\ k = CursorKey]_vars

\* C14 witness: an item transferred under one path was transferred again under
\* a new name and path; both objects are in the bucket with its content.
C14_Witness ==
    /\ Exists(bucket, "/Invoices/a.pdf")
    /\ Exists(bucket, "/Invoices/2024/a2.pdf")
    /\ bucket["/Invoices/a.pdf"] = ContentOf("A")
    /\ bucket["/Invoices/2024/a2.pdf"] = ContentOf("A")
    /\ pc = "done"

\* C15, as stated: when the previous run saved its cursor and the transfer of
\* X failed in it, this run calls the pipeline for X only if X is among the
\* entries of the feed it read, starting from the cursor the previous run saved.
C15_Original ==
    \A X \in prev.failedIds :
        X \in CallIds => (X \in seen /\ delta_url = prev.savedLink)

\* C15, amended: when the previous run saved its cursor and the transfer of X
\* failed in it, this run calls the pipeline for X only if X is among the
\* entries of the feed it read; it read the feed from the cursor the previous
\* run saved when its cursor download succeeded, and from the root url when
\* the download failed.
C15_AtMostOnce ==
    \A X \in prev.failedIds :
        X \in CallIds =>
            /\ X \in seen
            /\ startCursor = prev.savedLink
            /\ delta_url = IF loaded THEN prev.savedLink ELSE RootUrl

\* C15 witness: an item whose transfer failed in the previous run, which saved
\* its cursor, is transferred in this run after the feed read from that cursor
\* showed it again.
C15_Witness ==
    \E X \in prev.failedIds :
        /\ X \in CallIds
        /\ X \in seen
        /\ loaded
        /\ delta_url = prev.savedLink

\* C16: the removal of the companion metadata file is attempted after the
\* removal of the content file, whatever the outcome of that first removal.
C16_BothRemovalsAttempted == [][pc = "cleanup" => pc' = "cleanup_json"]_vars

\* C17: for every item the content upload is attempted after the staging, the
\* metadata upload after the content upload and only then, whether the
\* content upload succeeded or failed.
C17_UploadOrder ==
    [][/\ pc = "stage" => pc' = "upload"
       /\ pc = "upload" => pc' = "upload_json"
       /\ pc' = "upload_json" => pc = "upload"]_vars

\* C17 witness: the content upload of a staged item failed and its metadata
\* upload succeeded.
C17_Witness ==
    /\ pc = "cleanup"
    /\ ~Exists(bucket, filename_s3)
    /\ Exists(bucket, filename_s3 \o ".json")

\* C18: from the return of delta_gather to the end of the run the persisted
\* cursor is the one delta_gather left: the saved link when the save
\* succeeded, the cursor the run started with otherwise.
C18_TransferKeepsCursor ==
    Returned => Cursor(bucket) = IF saved = "ok" THEN terminal.link ELSE startCursor

\* C18 witness: a run that saved its cursor has ended after a transfer with a
\* failed fetch or upload, and the saved cursor is the persisted one.
C18_Witness ==
    /\ pc = "done"
    /\ saved = "ok"
    /\ calls # <<>>
    /\ ~allOk
    /\ Cursor(bucket) = terminal.link

\* C19: the object a content upload writes under an item's content key is the
\* content fetched for that item.
C19_ContentIntegrity ==
    [][(pc = "upload" /\ bucket' # bucket) =>
          bucket'[filename_s3] = ContentOf(file_metadata.id)]_vars

\* C20: in a run whose traversal ended with a failed page request the
\* pipeline was called for no item and the bucket, which held no item object
\* when the run started, holds none.
C20_FeedFailureBlocksTransfer ==
    abortAt = "feed" =>
        /\ pc = "aborted"
        /\ calls = <<>>
        /\ Items(bucket) = Empty

\* C20 witness: the traversal failed after a file entry had been accumulated
\* from an earlier page.
C20_Witness ==
    /\ abortAt = "feed"
    /\ pc = "aborted"
    /\ FileIds(change_array) # <<>>
    /\ pages >= 1

====
